---- MODULE Spec2Model ----
(***************************************************************************)
(* Model of the MoltDAO governance client (src/moltdao.js).                *)
(*                                                                         *)
(* One client instance (class MoltDAOSkill) talks to a remote governance   *)
(* contract and two ERC20 contracts.  Every `await` of the source is a     *)
(* suspension point: an action of this model is either the start of a      *)
(* method (its code up to the first await) or the resumption of an await   *)
(* with the value (or the rejection) the remote call produced, followed by *)
(* the method's code up to its next await, its return or its throw.        *)
(* Remote reads are inputs; the only remote state kept is the governance   *)
(* contract's proposalCount, which other clients may also advance.         *)
(***************************************************************************)
EXTENDS Integers, Sequences, FiniteSets, TLC

\* ------------------------------------------------------------------ bounds
MaxCount == 3      \* largest proposalCount the remote contract reaches
MaxStatus == 4     \* largest uint8 status code the remote returns (0..3 are in range)
MaxPower == 2      \* largest raw voting power read
MaxAmount == 2     \* largest donation amount
MaxBalance == 1    \* largest raw token balance read

VARIABLES
    constructed,   \* "no" | "ok" | "threw": outcome of `new MoltDAOSkill(config)`
    network,       \* this.network
    privateKey,    \* this.privateKey: "absent" | "malformed" | "valid"
    provider,      \* TRUE once `new ethers.JsonRpcProvider(...)` has run
    wallet,        \* TRUE once `new ethers.Wallet(...)` has produced this.wallet
    contracts,     \* this.contracts: [defined, keys]
    proposalCount, \* remote: governance.proposalCount()
    pc,            \* position of the running method: "idle", an await, or "done"
    op,            \* the method called last
    args,          \* its arguments
    loc,           \* its locals
    calls,         \* remote calls it has issued so far, in order
    outcome,       \* "none" | "ok" | "error": how it ended
    error,         \* the Error it threw
    ret,           \* the result object it builds and returns
    errLog,        \* ids it reported through console.error
    failedIds      \* ids for which a remote fetch of the running call was rejected

vars == <<constructed, network, privateKey, provider, wallet, contracts,
          proposalCount, pc, op, args, loc, calls, outcome, error, ret, errLog,
          failedIds>>

clientVars == <<constructed, network, privateKey, provider, wallet, contracts>>

\* ------------------------------------------------------- configuration
\* NETWORKS (own properties of the object literal).
NETWORKS ==
    [testnet |-> [chainId |-> 84532,
                  contracts |-> {"token", "splitter", "governance", "usdc"}]]

\* Properties every object literal inherits from Object.prototype; a property
\* read NETWORKS[name] finds them although they are not networks.
ObjectPrototypeKeys == {"constructor", "toString"}

\* Network selectors a caller may pass ("undefined": none given).
NetworkSelectors == {"undefined", "testnet", "mainnet"} \cup ObjectPrototypeKeys

Credentials == {"absent", "malformed", "valid"}

\* The property read NETWORKS[this.network].
NetworkLookup(sel) ==
    IF sel \in DOMAIN NETWORKS
    THEN [isObject |-> TRUE, rpc |-> TRUE, hasContracts |-> TRUE,
          keys |-> NETWORKS[sel].contracts]
    ELSE IF sel \in ObjectPrototypeKeys
    THEN [isObject |-> TRUE, rpc |-> FALSE, hasContracts |-> FALSE, keys |-> {}]
    ELSE [isObject |-> FALSE, rpc |-> FALSE, hasContracts |-> FALSE, keys |-> {}]

\* ------------------------------------------------------- unit conversion
\* ethers.formatUnits(v, d): the decimal string of v / 10^d, kept as its
\* integer part and its d-digit fraction.  Every v of the model is below
\* 10^9, so for d >= 9 the integer part is 0 and the fraction is v.
FormatUnits(v, d) ==
    IF d < 9
    THEN [int |-> v \div (10 ^ d), frac |-> v % (10 ^ d), digits |-> d]
    ELSE [int |-> 0, frac |-> v, digits |-> d]

\* ethers.parseUnits(amount.toString(), 6) for a whole amount.
ParseUnits(amount, d) == amount * (10 ^ d)

\* ['Pending', 'Active', 'Ended', 'Cancelled'][p.status]
StatusLabel(s) ==
    IF s \in 0..3
    THEN <<"Pending", "Active", "Ended", "Cancelled">>[s + 1]
    ELSE "undefined"

\* ------------------------------------------------------- call frames
NoArgs == [id |-> 0, support |-> FALSE, amount |-> 0]

NoLoc == [isActive |-> "unset", hasVoted |-> "unset", power |-> -1,
          count |-> -1, i |-> 0, pStatus |-> -1, proposals |-> <<>>,
          symbol |-> "", decimals |-> 0, splitterBalance |-> 0,
          usdcRead |-> "unset", assignedId |-> 0]

NoFmt == FormatUnits(0, 0)

NoRet == [proposals |-> <<>>, proposalId |-> 0, support |-> "",
          votingPower |-> NoFmt, symbol |-> "", splitterBalance |-> NoFmt,
          usdc |-> "absent", usdcBalance |-> NoFmt, amount |-> 0]

\* What a remote read resolves to: a value of S, or a rejection.
ReadResults(S) ==
    {[failed |-> FALSE, v |-> x] : x \in S}
        \cup {[failed |-> TRUE, v |-> CHOOSE x \in S : TRUE]}

\* A method may be called on a constructed client that is not inside a call.
CanCall == constructed = "ok" /\ pc \in {"idle", "done"}

\* `throw new Error(e)`, or a rejected await propagating out of the method.
Throw(e) == pc' = "done" /\ outcome' = "error" /\ error' = e

\* `return value`
Return(value) == pc' = "done" /\ outcome' = "ok" /\ error' = "" /\ ret' = value

\* Issue the remote call `name` and suspend at await `at`.
Issue(name, at) ==
    calls' = Append(calls, name) /\ pc' = at /\ UNCHANGED <<outcome, error>>

\* ------------------------------------------------------- constructor
Init ==
    /\ constructed = "no"
    /\ network = "undefined"
    /\ privateKey = "absent"
    /\ provider = FALSE
    /\ wallet = FALSE
    /\ contracts = [defined |-> FALSE, keys |-> {}]
    /\ proposalCount \in 0..MaxCount
    /\ pc = "idle"
    /\ op = "none"
    /\ args = NoArgs
    /\ loc = NoLoc
    /\ calls = <<>>
    /\ outcome = "none"
    /\ error = ""
    /\ ret = NoRet
    /\ errLog = <<>>
    /\ failedIds = {}

\* this.network = config.network || 'testnet'
ResolveNetwork(cfgNetwork) ==
    IF cfgNetwork = "undefined" THEN "testnet" ELSE cfgNetwork

\* this.privateKey = config.privateKey || process.env.MOLTDAO_PRIVATE_KEY
ResolveKey(cfgKey, envKey) == IF cfgKey # "absent" THEN cfgKey ELSE envKey

\* constructor(config): reading networkConfig.rpc of undefined throws a
\* TypeError before the provider is built; JsonRpcProvider(undefined) falls
\* back to its default URL; Wallet throws on a key that is no 32-byte value.
Construct(cfgNetwork, cfgKey, envKey) ==
    LET net == ResolveNetwork(cfgNetwork)
        key == ResolveKey(cfgKey, envKey)
        networkConfig == NetworkLookup(net)
    IN  /\ constructed = "no"
        /\ network' = net
        /\ privateKey' = key
        /\ IF ~networkConfig.isObject
           THEN /\ constructed' = "threw"
                /\ error' = "TypeError"
                /\ UNCHANGED <<provider, wallet, contracts>>
           ELSE /\ provider' = TRUE
                /\ contracts' = [defined |-> networkConfig.hasContracts,
                                 keys |-> networkConfig.keys]
                /\ IF key = "absent"
                   THEN constructed' = "ok" /\ UNCHANGED <<wallet, error>>
                   ELSE IF key = "malformed"
                   THEN /\ constructed' = "threw"
                        /\ error' = "InvalidPrivateKey"
                        /\ UNCHANGED wallet
                   ELSE /\ constructed' = "ok"
                        /\ wallet' = TRUE
                        /\ UNCHANGED error
        /\ UNCHANGED <<proposalCount, pc, op, args, loc, calls, outcome, ret, errLog, failedIds>>

Constructor ==
    \E cfgNetwork \in NetworkSelectors, cfgKey \in Credentials, envKey \in Credentials :
        Construct(cfgNetwork, cfgKey, envKey)

\* Start of a method call: fresh frame.
Begin(name, a) ==
    /\ op' = name
    /\ args' = a
    /\ ret' = NoRet
    /\ errLog' = <<>>
    /\ failedIds' = {}

\* ------------------------------------------------------- vote
\* Variant of VoteEnter that reads hasUserVoted before isProposalActive.
VoteEnter_HasVotedFirst ==
    IF ~wallet
    THEN Throw("NoPrivateKey") /\ calls' = <<>>
    ELSE IF ~contracts.defined
    THEN Throw("TypeError") /\ calls' = <<>>
    ELSE /\ calls' = <<"hasUserVoted">>
         /\ pc' = "vote_hasVoted"
         /\ outcome' = "none"
         /\ error' = ""

\* vote(proposalId, support) up to `await gov.isProposalActive(proposalId)`.
VoteEnter ==
    IF ~wallet
    THEN Throw("NoPrivateKey") /\ calls' = <<>>
    ELSE IF ~contracts.defined
    THEN Throw("TypeError") /\ calls' = <<>>
    ELSE /\ calls' = <<"isProposalActive">>
         /\ pc' = "vote_isActive"
         /\ outcome' = "none"
         /\ error' = ""

VoteCall ==
    /\ CanCall
    /\ \E id \in 1..MaxCount, support \in BOOLEAN :
           Begin("vote", [NoArgs EXCEPT !.id = id, !.support = support])
    /\ loc' = NoLoc
    /\ VoteEnter
    /\ UNCHANGED <<clientVars, proposalCount>>

\* Variant of VoteAfterIsActive that drops the `if (!isActive) throw`.
VoteAfterIsActive_Unchecked(isActive) ==
    /\ loc' = [loc EXCEPT !.isActive = IF isActive THEN "true" ELSE "false"]
    /\ Issue("hasUserVoted", "vote_hasVoted")

\* isActive received: the active check, then `await gov.hasUserVoted(...)`.
VoteAfterIsActive(isActive) ==
    /\ loc' = [loc EXCEPT !.isActive = IF isActive THEN "true" ELSE "false"]
    /\ IF ~isActive
       THEN Throw("NotActive") /\ UNCHANGED calls
       ELSE Issue("hasUserVoted", "vote_hasVoted")

VoteIsActiveReturns ==
    /\ pc = "vote_isActive"
    /\ \E r \in ReadResults(BOOLEAN) :
           IF r.failed
           THEN Throw("Transport") /\ UNCHANGED <<calls, loc>>
           ELSE VoteAfterIsActive(r.v)
    /\ UNCHANGED <<clientVars, proposalCount, op, args, ret, errLog, failedIds>>

\* Variant of VoteAfterHasVoted that drops the `if (hasVoted) throw`.
VoteAfterHasVoted_Unchecked(hasVoted) ==
    /\ loc' = [loc EXCEPT !.hasVoted = IF hasVoted THEN "true" ELSE "false"]
    /\ Issue("getVotingPower", "vote_power")

\* hasVoted received: the already-voted check, then `await gov.getVotingPower(...)`.
VoteAfterHasVoted(hasVoted) ==
    /\ loc' = [loc EXCEPT !.hasVoted = IF hasVoted THEN "true" ELSE "false"]
    /\ IF hasVoted
       THEN Throw("AlreadyVoted") /\ UNCHANGED calls
       ELSE Issue("getVotingPower", "vote_power")

VoteHasVotedReturns ==
    /\ pc = "vote_hasVoted"
    /\ \E r \in ReadResults(BOOLEAN) :
           IF r.failed
           THEN Throw("Transport") /\ UNCHANGED <<calls, loc>>
           ELSE VoteAfterHasVoted(r.v)
    /\ UNCHANGED <<clientVars, proposalCount, op, args, ret, errLog, failedIds>>

\* Variant of VoteAfterPower whose zero test never matches (as `power === 0n`
\* would not, were power an object rather than a bigint).
VoteAfterPower_NeverZero(power) ==
    /\ loc' = [loc EXCEPT !.power = power]
    /\ Issue("vote", "vote_submit")

\* power received (a bigint): `power === 0n` check, then `await gov.vote(...)`.
VoteAfterPower(power) ==
    /\ loc' = [loc EXCEPT !.power = power]
    /\ IF power = 0
       THEN Throw("NoVotingPower") /\ UNCHANGED calls
       ELSE Issue("vote", "vote_submit")

VotePowerReturns ==
    /\ pc = "vote_power"
    /\ \E r \in ReadResults(0..MaxPower) :
           IF r.failed
           THEN Throw("Transport") /\ UNCHANGED <<calls, loc>>
           ELSE VoteAfterPower(r.v)
    /\ UNCHANGED <<clientVars, proposalCount, op, args, ret, errLog, failedIds>>

\* `await gov.vote(...)` resolved with the transaction (or was rejected):
\* then `await tx.wait()`.
VoteSubmitReturns ==
    /\ pc = "vote_submit"
    /\ \E sent \in BOOLEAN :
           IF sent
           THEN Issue("wait", "vote_wait")
           ELSE Throw("Transport") /\ UNCHANGED calls
    /\ UNCHANGED <<clientVars, proposalCount, op, args, loc, ret, errLog, failedIds>>

\* `await tx.wait()` resolved (mined) or rejected (reverted): the result object.
VoteWaitReturns ==
    /\ pc = "vote_wait"
    /\ \E mined \in BOOLEAN :
           IF mined
           THEN Return([NoRet EXCEPT
                           !.proposalId = args.id,
                           !.support = IF args.support THEN "FOR" ELSE "AGAINST",
                           !.votingPower = FormatUnits(loc.power, 18)])
           ELSE Throw("Transport") /\ UNCHANGED ret
    /\ UNCHANGED <<clientVars, proposalCount, op, args, loc, calls, errLog, failedIds>>

\* ------------------------------------------------------- getProposals
\* The for loop of getProposals at index i with the list ps built so far:
\* the next `await gov.getProposal(i)`, or `return proposals`.
GpLoop(i, l, ps) ==
    /\ loc' = [l EXCEPT !.i = i, !.proposals = ps]
    /\ IF i <= l.count
       THEN Issue("getProposal", "gp_getProposal") /\ UNCHANGED ret
       ELSE Return([NoRet EXCEPT !.proposals = ps]) /\ UNCHANGED calls

\* Variant of GpCatch without the try/catch: the rejection leaves the method.
GpCatch_Rethrow ==
    /\ Throw("Transport")
    /\ UNCHANGED <<errLog, loc, calls, ret>>

\* catch (e) { console.error(`Error fetching proposal ${i}:`, ...) }: the
\* id is logged and the loop goes on with the next id.
GpCatch ==
    /\ errLog' = Append(errLog, loc.i)
    /\ GpLoop(loc.i + 1, loc, loc.proposals)

\* proposals.push({ id: Number(p.id), ..., status: [...][p.status], isActive, ... })
\* The remote contract's ids are 1-based and contiguous: getProposal(i).id = i.
GpPush(isActive) ==
    /\ GpLoop(loc.i + 1, loc,
              Append(loc.proposals,
                     [id |-> loc.i,
                      status |-> StatusLabel(loc.pStatus),
                      isActive |-> isActive]))
    /\ UNCHANGED errLog

GetProposalsCall ==
    /\ CanCall
    /\ Begin("getProposals", NoArgs)
    /\ loc' = NoLoc
    /\ IF ~contracts.defined
       THEN Throw("TypeError") /\ calls' = <<>>
       ELSE /\ calls' = <<"proposalCount">>
            /\ pc' = "gp_count"
            /\ outcome' = "none"
            /\ error' = ""
    /\ UNCHANGED <<clientVars, proposalCount>>

\* count received: `for (let i = 1; i <= Number(count); i++)`.
GpCountReturns ==
    /\ pc = "gp_count"
    /\ \E failed \in BOOLEAN :
           IF failed
           THEN Throw("Transport") /\ UNCHANGED <<calls, loc, ret>>
           ELSE GpLoop(1, [loc EXCEPT !.count = proposalCount], <<>>)
    /\ UNCHANGED <<clientVars, proposalCount, op, args, errLog, failedIds>>

GpGetProposalReturns ==
    /\ pc = "gp_getProposal"
    /\ \E r \in ReadResults(0..MaxStatus) :
           IF r.failed
           THEN GpCatch /\ failedIds' = failedIds \cup {loc.i}
           ELSE /\ loc' = [loc EXCEPT !.pStatus = r.v]
                /\ Issue("getProposalResult", "gp_result")
                /\ UNCHANGED <<ret, errLog, failedIds>>
    /\ UNCHANGED <<clientVars, proposalCount, op, args>>

GpResultReturns ==
    /\ pc = "gp_result"
    /\ \E failed \in BOOLEAN :
           IF failed
           THEN GpCatch /\ failedIds' = failedIds \cup {loc.i}
           ELSE /\ Issue("isProposalActive", "gp_isActive")
                /\ UNCHANGED <<loc, ret, errLog, failedIds>>
    /\ UNCHANGED <<clientVars, proposalCount, op, args>>

GpIsActiveReturns ==
    /\ pc = "gp_isActive"
    /\ \E r \in ReadResults(BOOLEAN) :
           IF r.failed
           THEN GpCatch /\ failedIds' = failedIds \cup {loc.i}
           ELSE GpPush(r.v) /\ UNCHANGED failedIds
    /\ UNCHANGED <<clientVars, proposalCount, op, args>>

\* ------------------------------------------------------- getVotingPower, hasVoted
GetVotingPowerCall ==
    /\ CanCall
    /\ Begin("getVotingPower", NoArgs)
    /\ loc' = NoLoc
    /\ IF ~contracts.defined
       THEN Throw("TypeError") /\ calls' = <<>>
       ELSE /\ calls' = <<"getVotingPower">>
            /\ pc' = "vp_power"
            /\ outcome' = "none"
            /\ error' = ""
    /\ UNCHANGED <<clientVars, proposalCount>>

GetVotingPowerReturns ==
    /\ pc = "vp_power"
    /\ \E r \in ReadResults(0..MaxPower) :
           IF r.failed
           THEN Throw("Transport") /\ UNCHANGED <<loc, ret>>
           ELSE /\ loc' = [loc EXCEPT !.power = r.v]
                /\ Return([NoRet EXCEPT !.votingPower = FormatUnits(r.v, 18)])
    /\ UNCHANGED <<clientVars, proposalCount, op, args, calls, errLog, failedIds>>

HasVotedCall ==
    /\ CanCall
    /\ \E id \in 1..MaxCount : Begin("hasVoted", [NoArgs EXCEPT !.id = id])
    /\ loc' = NoLoc
    /\ IF ~contracts.defined
       THEN Throw("TypeError") /\ calls' = <<>>
       ELSE /\ calls' = <<"hasUserVoted">>
            /\ pc' = "hv_hasVoted"
            /\ outcome' = "none"
            /\ error' = ""
    /\ UNCHANGED <<clientVars, proposalCount>>

HasVotedReturns ==
    /\ pc = "hv_hasVoted"
    /\ \E r \in ReadResults(BOOLEAN) :
           IF r.failed
           THEN Throw("Transport") /\ UNCHANGED <<loc, ret>>
           ELSE /\ loc' = [loc EXCEPT !.hasVoted = IF r.v THEN "true" ELSE "false"]
                /\ Return(NoRet)
    /\ UNCHANGED <<clientVars, proposalCount, op, args, calls, errLog, failedIds>>

\* ------------------------------------------------------- getTreasury
TokenDecimals == {6, 18}

Balances == {k * 1500000 : k \in 0..MaxBalance}

GetTreasuryCall ==
    /\ CanCall
    /\ Begin("getTreasury", NoArgs)
    /\ loc' = NoLoc
    /\ IF ~contracts.defined
       THEN Throw("TypeError") /\ calls' = <<>>
       ELSE /\ calls' = <<"symbol", "decimals", "balanceOf">>
            /\ pc' = "gt_primary"
            /\ outcome' = "none"
            /\ error' = ""
    /\ UNCHANGED <<clientVars, proposalCount>>

\* `if (this.network === 'testnet' && this.contracts.usdc)`
ReadsSecondary == network = "testnet" /\ "usdc" \in contracts.keys

\* Promise.all resolved: build `result`, then the secondary read or the return.
GtAfterPrimary(symbol, decimals, splitterBalance) ==
    LET result == [NoRet EXCEPT !.symbol = symbol,
                                !.splitterBalance = FormatUnits(splitterBalance, decimals)]
    IN  /\ loc' = [loc EXCEPT !.symbol = symbol, !.decimals = decimals,
                                  !.splitterBalance = splitterBalance]
        /\ IF ReadsSecondary
           THEN ret' = result /\ Issue("usdc.balanceOf", "gt_usdc")
           ELSE Return(result) /\ UNCHANGED calls

GtPrimaryReturns ==
    /\ pc = "gt_primary"
    /\ \E failed \in BOOLEAN, d \in TokenDecimals, b \in Balances :
           IF failed
           THEN Throw("Transport") /\ UNCHANGED <<calls, ret, loc>>
           ELSE GtAfterPrimary("USDC", d, b)
    /\ UNCHANGED <<clientVars, proposalCount, op, args, errLog, failedIds>>

\* Variant of GtUsdcCatch without the try/catch around the secondary read.
GtUsdcCatch_Rethrow ==
    /\ loc' = [loc EXCEPT !.usdcRead = "failed"]
    /\ Throw("Transport")
    /\ UNCHANGED ret

\* catch (e) { result.usdc = { error: e.message }; } ... return result
GtUsdcCatch ==
    /\ loc' = [loc EXCEPT !.usdcRead = "failed"]
    /\ Return([ret EXCEPT !.usdc = "error"])

GtUsdcReturns ==
    /\ pc = "gt_usdc"
    /\ \E r \in ReadResults(Balances) :
           IF r.failed
           THEN GtUsdcCatch
           ELSE /\ loc' = [loc EXCEPT !.usdcRead = "ok"]
                /\ Return([ret EXCEPT !.usdc = "balance",
                                      !.usdcBalance = FormatUnits(r.v, 6)])
    /\ UNCHANGED <<clientVars, proposalCount, op, args, calls, errLog, failedIds>>

\* ------------------------------------------------------- donateUSDC
\* Variant of DonateEnter without the `this.network !== 'testnet'` check.
DonateEnter_NoNetworkCheck ==
    IF ~wallet
    THEN Throw("NoPrivateKey") /\ calls' = <<>>
    ELSE IF ~contracts.defined
    THEN Throw("TypeError") /\ calls' = <<>>
    ELSE /\ calls' = <<"transfer">>
         /\ pc' = "dn_submit"
         /\ outcome' = "none"
         /\ error' = ""

\* donateUSDC(amount) up to `await usdc.transfer(...)`.
DonateEnter ==
    IF network # "testnet"
    THEN Throw("NotTestnet") /\ calls' = <<>>
    ELSE IF ~wallet
    THEN Throw("NoPrivateKey") /\ calls' = <<>>
    ELSE /\ calls' = <<"transfer">>
         /\ pc' = "dn_submit"
         /\ outcome' = "none"
         /\ error' = ""

DonateCall ==
    /\ CanCall
    /\ \E amount \in 0..MaxAmount : Begin("donateUSDC", [NoArgs EXCEPT !.amount = amount])
    /\ loc' = NoLoc
    /\ DonateEnter
    /\ UNCHANGED <<clientVars, proposalCount>>

DonateSubmitReturns ==
    /\ pc = "dn_submit"
    /\ \E sent \in BOOLEAN :
           IF sent
           THEN Issue("wait", "dn_wait")
           ELSE Throw("Transport") /\ UNCHANGED calls
    /\ UNCHANGED <<clientVars, proposalCount, op, args, loc, ret, errLog, failedIds>>

DonateWaitReturns ==
    /\ pc = "dn_wait"
    /\ \E mined \in BOOLEAN :
           IF mined
           THEN Return([NoRet EXCEPT !.amount = ParseUnits(args.amount, 6)])
           ELSE Throw("Transport") /\ UNCHANGED ret
    /\ UNCHANGED <<clientVars, proposalCount, op, args, loc, calls, errLog, failedIds>>

\* ------------------------------------------------------- createProposal
\* createProposal(title, description) up to `await gov.createProposal(...)`.
CreateEnter ==
    IF ~wallet
    THEN Throw("NoPrivateKey") /\ calls' = <<>>
    ELSE IF ~contracts.defined
    THEN Throw("TypeError") /\ calls' = <<>>
    ELSE /\ calls' = <<"createProposal">>
         /\ pc' = "cp_submit"
         /\ outcome' = "none"
         /\ error' = ""

CreateProposalCall ==
    /\ CanCall
    /\ Begin("createProposal", NoArgs)
    /\ loc' = NoLoc
    /\ CreateEnter
    /\ UNCHANGED <<clientVars, proposalCount>>

CreateSubmitReturns ==
    /\ pc = "cp_submit"
    /\ \E sent \in BOOLEAN :
           IF sent
           THEN Issue("wait", "cp_wait")
           ELSE Throw("Transport") /\ UNCHANGED calls
    /\ UNCHANGED <<clientVars, proposalCount, op, args, loc, ret, errLog, failedIds>>

\* `await tx.wait()`: the transaction was mined (the contract assigned the
\* next id, proposalCount + 1, to the new proposal) or it reverted; once
\* mined, `await gov.proposalCount()` is issued.
CreateWaitReturns ==
    /\ pc = "cp_wait"
    /\ \/ /\ proposalCount < MaxCount
          /\ proposalCount' = proposalCount + 1
          /\ loc' = [loc EXCEPT !.assignedId = proposalCount + 1]
          /\ Issue("proposalCount", "cp_count")
       \/ /\ Throw("Transport")
          /\ UNCHANGED <<calls, loc, proposalCount>>
    /\ UNCHANGED <<clientVars, op, args, ret, errLog, failedIds>>

\* proposalCount received: `proposalId: Number(proposalCount)`.
CreateAfterCount(count) ==
    /\ loc' = [loc EXCEPT !.count = count]
    /\ Return([NoRet EXCEPT !.proposalId = count])

CreateCountReturns ==
    /\ pc = "cp_count"
    /\ \E failed \in BOOLEAN :
           IF failed
           THEN Throw("Transport") /\ UNCHANGED <<loc, ret>>
           ELSE CreateAfterCount(proposalCount)
    /\ UNCHANGED <<clientVars, proposalCount, op, args, calls, errLog, failedIds>>

\* Another client's createProposal transaction is mined on the same contract.
OtherClientCreates ==
    /\ proposalCount < MaxCount
    /\ proposalCount' = proposalCount + 1
    /\ UNCHANGED <<clientVars, pc, op, args, loc, calls, outcome, error, ret, errLog, failedIds>>

Next ==
    \/ Constructor
    \/ VoteCall
    \/ VoteIsActiveReturns
    \/ VoteHasVotedReturns
    \/ VotePowerReturns
    \/ VoteSubmitReturns
    \/ VoteWaitReturns
    \/ GetProposalsCall
    \/ GpCountReturns
    \/ GpGetProposalReturns
    \/ GpResultReturns
    \/ GpIsActiveReturns
    \/ GetVotingPowerCall
    \/ GetVotingPowerReturns
    \/ HasVotedCall
    \/ HasVotedReturns
    \/ GetTreasuryCall
    \/ GtPrimaryReturns
    \/ GtUsdcReturns
    \/ DonateCall
    \/ DonateSubmitReturns
    \/ DonateWaitReturns
    \/ CreateProposalCall
    \/ CreateSubmitReturns
    \/ CreateWaitReturns
    \/ CreateCountReturns
    \/ OtherClientCreates

Spec == Init /\ [][Next]_vars

\* ======================================================= properties
\* The set of remote calls the running method has issued.
Issued == {calls[k] : k \in 1..Len(calls)}

\* The ids of a list of proposals, in list order.
IdsOf(ps) == [k \in 1..Len(ps) |-> ps[k].id]

StatusLabels == {"Pending", "Active", "Ended", "Cancelled"}

WriteOps == {"vote", "donateUSDC", "createProposal"}

ReadOps == {"getProposals", "getVotingPower", "hasVoted", "getTreasury"}

\* C1: whenever vote's isProposalActive read has returned false, the call has
\* failed with the "not active" precondition error and has submitted no vote
\* transaction, for every proposal id and either support value.
C1_InactiveVoteNotSubmitted ==
    (op = "vote" /\ loc.isActive = "false")
        => /\ pc = "done"
           /\ outcome = "error"
           /\ error = "NotActive"
           /\ "vote" \notin Issued

C1_Witness ==
    /\ op = "vote" /\ loc.isActive = "false" /\ pc = "done"
    /\ args.id = MaxCount /\ ~args.support

\* C2: whenever vote's hasUserVoted read has returned true, the call has
\* failed with the "already voted" error and has submitted no vote transaction.
C2_AlreadyVotedNotSubmitted ==
    (op = "vote" /\ loc.hasVoted = "true")
        => /\ pc = "done"
           /\ outcome = "error"
           /\ error = "AlreadyVoted"
           /\ "vote" \notin Issued

C2_Witness ==
    /\ op = "vote" /\ loc.hasVoted = "true" /\ loc.isActive = "true" /\ pc = "done"

\* C3: with a signer, an active proposal and no earlier vote, a voting power
\* read of exactly zero fails the call before submission, and every positive
\* voting power read has the vote transaction submitted.
C3_PowerDecidesSubmission ==
    (op = "vote" /\ loc.power >= 0)
        => /\ wallet /\ loc.isActive = "true" /\ loc.hasVoted = "false"
           /\ loc.power = 0 =>
                  /\ pc = "done" /\ outcome = "error" /\ error = "NoVotingPower"
                  /\ "vote" \notin Issued
           /\ loc.power > 0 => "vote" \in Issued

C3_Witness ==
    /\ op = "vote" /\ loc.power = 1 /\ "vote" \in Issued /\ pc = "vote_submit"

\* C4: once the proposal count n has been read, getProposals never fails;
\* when it is done it has returned exactly the proposals with ids in
\* (1..n) minus the ids whose fetch was rejected, in ascending id order
\* (so n minus the number of failed ids of them, none when n = 0).
C4_ListSkipsFailedIds ==
    (op = "getProposals" /\ loc.count >= 0)
        => /\ outcome # "error"
           /\ pc = "done" =>
                  /\ outcome = "ok"
                  /\ failedIds \subseteq 1..loc.count
                  /\ {IdsOf(ret.proposals)[k] : k \in 1..Len(ret.proposals)}
                         = (1..loc.count) \ failedIds
                  /\ \A j, k \in 1..Len(ret.proposals) :
                         j < k => ret.proposals[j].id < ret.proposals[k].id
                  /\ Len(ret.proposals) = loc.count - Cardinality(failedIds)
                  /\ loc.count = 0 => ret.proposals = <<>>

C4_Witness ==
    /\ op = "getProposals" /\ pc = "done" /\ outcome = "ok"
    /\ loc.count = MaxCount
    /\ failedIds = {2}
    /\ IdsOf(ret.proposals) = <<1, 3>>

\* C5: every status a listing decodes is in 0..3 and becomes the label at
\* that position; no listed proposal carries a status that is none of the
\* four labels.
C5_StatusDecodedOrRaised ==
    op = "getProposals"
        => /\ \A k \in 1..Len(loc.proposals) :
                  loc.proposals[k].status \in StatusLabels
           /\ ( /\ pc \in {"gp_getProposal", "done"}
                /\ Len(loc.proposals) > 0
                /\ loc.proposals[Len(loc.proposals)].id = loc.i - 1 )
                  => /\ loc.pStatus \in 0..3
                     /\ loc.proposals[Len(loc.proposals)].status
                            = <<"Pending", "Active", "Ended", "Cancelled">>[loc.pStatus + 1]

\* C6: constructing a client on a configured network with an absent or a
\* malformed credential succeeds; its reads never fail for want of a key, and
\* each of its writes fails with the "no private key" configuration error
\* before any remote call.
C6_CredentialOptional ==
    (constructed # "no" /\ network \in DOMAIN NETWORKS
                        /\ privateKey \in {"absent", "malformed"})
        => /\ constructed = "ok"
           /\ op \in WriteOps =>
                  /\ pc = "done" /\ outcome = "error" /\ error = "NoPrivateKey"
                  /\ calls = <<>>
           /\ op \in ReadOps => error # "NoPrivateKey"

\* C7: on a client whose network configuration defines no usdc contract,
\* donateUSDC fails with the "only available on testnet" configuration error
\* and issues no remote call (no transfer), for every amount, signer or not.
C7_DonateNeedsStableAsset ==
    (constructed = "ok" /\ "usdc" \notin contracts.keys /\ op = "donateUSDC")
        => /\ pc = "done"
           /\ outcome = "error"
           /\ error = "NotTestnet"
           /\ calls = <<>>

C7_Witness ==
    /\ constructed = "ok" /\ "usdc" \notin contracts.keys /\ op = "donateUSDC"
    /\ wallet /\ args.amount = MaxAmount /\ pc = "done"

\* C8: a construction with a network selector that is not a configured
\* network has failed, with no provider created and no wallet derived.
C8_UnknownNetworkRejected ==
    (constructed # "no" /\ network \notin DOMAIN NETWORKS)
        => /\ constructed = "threw"
           /\ ~provider
           /\ ~wallet

\* C9: whenever getTreasury's secondary balance read has been rejected, the
\* call has returned a snapshot whose primary fields are the symbol and the
\* formatted splitter balance it read and whose usdc field is an error object.
C9_SecondaryFailureIsolated ==
    (op = "getTreasury" /\ loc.usdcRead = "failed")
        => /\ pc = "done"
           /\ outcome = "ok"
           /\ ret.usdc = "error"
           /\ ret.symbol = loc.symbol /\ ret.symbol = "USDC"
           /\ ret.splitterBalance = FormatUnits(loc.splitterBalance, loc.decimals)

C9_Witness ==
    /\ op = "getTreasury" /\ loc.usdcRead = "failed" /\ pc = "done"
    /\ loc.splitterBalance = 1500000 /\ loc.decimals = 6
    /\ ret.splitterBalance = [int |-> 1, frac |-> 500000, digits |-> 6]

\* C10: the proposalId a successful createProposal returns is the id the
\* contract assigned to the proposal that call created.
C10_ReturnsAssignedId ==
    (op = "createProposal" /\ pc = "done" /\ outcome = "ok")
        => ret.proposalId = loc.assignedId

\* The remote calls of vote, in source order.
VoteOrder == <<"isProposalActive", "hasUserVoted", "getVotingPower", "vote", "wait">>

\* C11: vote checks the signer, then reads isActive, hasVoted and the voting
\* power, then submits, in that order: the calls it has issued are always a
\* prefix of that sequence, each call is issued only after every earlier
\* guard passed, and the first failing guard ends the call with its own
\* error, no later read or submission having been issued.
C11_GuardsInOrderShortCircuit ==
    op = "vote"
        => /\ Len(calls) <= Len(VoteOrder)
           /\ calls = SubSeq(VoteOrder, 1, Len(calls))
           /\ ~wallet => /\ pc = "done" /\ outcome = "error"
                         /\ error = "NoPrivateKey" /\ calls = <<>>
           /\ Len(calls) >= 1 => wallet
           /\ Len(calls) >= 2 => loc.isActive = "true"
           /\ Len(calls) >= 3 => loc.hasVoted = "false"
           /\ Len(calls) >= 4 => loc.power > 0
           /\ loc.isActive = "false" =>
                  /\ pc = "done" /\ outcome = "error" /\ error = "NotActive"
                  /\ calls = SubSeq(VoteOrder, 1, 1)
                  /\ loc.hasVoted = "unset" /\ loc.power = -1
           /\ loc.hasVoted = "true" =>
                  /\ pc = "done" /\ outcome = "error" /\ error = "AlreadyVoted"
                  /\ calls = SubSeq(VoteOrder, 1, 2)
                  /\ loc.power = -1
           /\ loc.power = 0 =>
                  /\ pc = "done" /\ outcome = "error" /\ error = "NoVotingPower"
                  /\ calls = SubSeq(VoteOrder, 1, 3)

C11_Witness ==
    /\ op = "vote" /\ pc = "done" /\ error = "NoVotingPower"
    /\ calls = <<"isProposalActive", "hasUserVoted", "getVotingPower">>
    /\ loc.isActive = "true" /\ loc.hasVoted = "false" /\ loc.power = 0
====
